---- MODULE Spec2Model ----
(***************************************************************************)
(* bevy_mod_adwaita: the window bridge between the Bevy render loop and    *)
(* the Adwaita (GTK) UI thread.  The model covers AdwaitaWindow::open, the *)
(* command senders, poll_windows, and the frame relay                      *)
(* extract_windows -> send_frame_to_windows ->                             *)
(* put_back_next_frame_if_not_sent, together with the UI thread that sits  *)
(* on the other end of the shared atomics, slots and channels, and         *)
(* render::build_dmabuf_texture.                                           *)
(*                                                                         *)
(* An Option<T> is a sequence of length <= 1: None is <<>>, Some(x) <<x>>. *)
(* A UVec2 is a pair <<x, y>>.                                             *)
(***************************************************************************)
EXTENDS Integers, Sequences, FiniteSets, TLC

\* ---------------------------------------------------------------- bounds
MaxWindows == 2
MaxReports == 5
MaxRelayReports == 4
MaxHandle == 2
MaxToggleCalls == 1
\* u32 arithmetic is done on words of WordBits bits instead of 32 (TLC's integers
\* end at 2^31 - 1): `x * 4` wraps from 2^WordBits / 4 on as it does from 2^30 on
\* in the program.
WordBits == 5

\* ------------------------------------------------------ program constants
WindowOpenCapacity == 1
CommandCapacity == 16
Sentinel == -1
Fourcc == 875708754
Modifier == 0
PlaneCount == 1
PlaneOffset == 0
BytesPerPixel == 4

Windows == 1..MaxWindows
Handles == 1..MaxHandle
\* the values the UI reports: widths and heights, and scale factors
Dims == {0, 1, 2}
Scales == {0, 1, 2}
Titles == {"App"}
PrimaryWindow == 1

None == <<>>
Some(x) == <<x>>

Max(a, b) == IF a >= b THEN a ELSE b

VARIABLES
    \* main world
    ent,                      \* per window: "none" | "open" | "despawned"
    render_target_width,      \* AtomicI32, written by the UI thread
    render_target_height,     \* AtomicI32, written by the UI thread
    scale_factor,             \* AtomicI32, written by the UI thread
    closed,                   \* AtomicBool, written by the UI thread
    render_target_handle,     \* ManualTextureViewHandle of the window (0: no component)
    last_render_target_size,  \* UVec2
    next_frame_to_render,     \* slot A: Option<FrameInfo>
    shared_next_frame,        \* slot B: Option<FrameInfo>
    manual_texture_views,     \* registry: handle -> Option<ManualTextureView>
    \* render world
    render_windows,           \* set of RenderWindow entities
    phase,                    \* the render app's next step in its pass
    \* channels and the calling thread
    send_window_open,         \* flume::bounded::<WindowOpen>(1)
    send_command,             \* per window flume::bounded::<WindowCommand>(16)
    recv_command_alive,       \* per window: the UI still holds recv_command
    main_pc,                  \* where the main thread is: running or inside a send
    \* UI thread
    ui_windows,               \* windows whose WindowOpen request the UI has received
    ui_taken,                 \* per window: the frames the UI took from slot B, in order
    ui_commands,              \* per window: the last command the UI received and applied
    ui_released,              \* per window: how many of the frames it took the UI has dropped
    built,                    \* a call of build_dmabuf_texture: its arguments and its outcome
    ui_report,                \* per window: the (width, height, scale) the UI is reporting,
                              \* the fields it has still to store, and every triple it reported
    \* history (observations of the run, not program state)
    exports,                  \* every call of setup_render_target: [win, size]
    observed,                 \* per window: [report, size] of each poll of a fresh report
    fresh,                    \* per window: a report arrived since the last poll
    reports,                  \* per window: number of UI stores to the size atomics
    last_stored_a,            \* per window: fd of the last frame stored into slot A (0: none)
    last_stored_b,            \* per window: fd of the last frame stored into slot B (0: none)
    overwritten_a,            \* fds of frames dropped by a store over an undrained slot A
    overwritten_b,            \* fds of frames dropped by a store over an undrained slot B
    extracted,                \* per window: fd of the last frame extract_windows took from slot A (0: none)
    toggle_calls,             \* number of set_maximized / set_fullscreen calls made
    rendered,                 \* history: the render phase of the current pass has run
    native_calls,             \* history: the native calls of the last run of the exporter
    \* the main world's schedules
    exit_condition,           \* AdwaitaWindowPlugin::exit_condition
    schedule,                 \* the schedule of the main world's pass that runs next
    app_exit,                 \* history: the AppExit events sent in the current pass
    observed_close            \* history: the windows poll_windows despawned in the current pass

mainVars == <<ent, render_target_handle, last_render_target_size, manual_texture_views>>
atomicVars == <<render_target_width, render_target_height, scale_factor, closed>>
slotVars == <<next_frame_to_render, shared_next_frame>>
renderVars == <<render_windows, phase>>
chanVars == <<send_window_open, send_command, recv_command_alive, main_pc, toggle_calls>>
uiVars == <<ui_windows, ui_taken, ui_commands, ui_released, built, ui_report>>
histVars == <<exports, observed, fresh, reports, last_stored_a, last_stored_b,
              overwritten_a, overwritten_b, extracted, rendered, native_calls>>
appVars == <<exit_condition, schedule, app_exit, observed_close>>
vars == <<mainVars, atomicVars, slotVars, renderVars, chanVars, uiVars, histVars, appVars>>

\* ------------------------------------------------------------ Frame Slot
\* a box that keeps an undrained value instead of replacing it
StoreBoxKeepFirst(slot, value) == IF slot = None THEN value ELSE slot

\* AtomicOptionBox::store: the new value replaces whatever the box held.
StoreBox(slot, value) == value

\* a take that makes up a default descriptor when the box is empty
TakeBoxFabricates(slot) ==
    [value |-> IF slot = <<>> THEN <<[size |-> <<0, 0>>, fd |-> 0, texture_view |-> 0]>>
               ELSE slot,
     left |-> <<>>]

\* a take that returns the content and leaves it in the box as well
TakeBoxPeek(slot) == [value |-> slot, left |-> slot]

\* AtomicOptionBox::take: returns the content and leaves the box empty.
TakeBox(slot) == [value |-> slot, left |-> None]

\* fd of the frame a store into `slot` drops
Dropped(slot) == IF slot = None THEN {} ELSE {slot[1].fd}

\* ------------------------------------------------------- pure helpers
\* a guard that converts width and height and forgets the scale factor
SizeReadyNoScale(width, height, scale) == width >= 0 /\ height >= 0

\* u32::try_from succeeds for all three loaded values
SizeReady(width, height, scale) == width >= 0 /\ height >= 0 /\ scale >= 0

\* UVec2::new(width.max(1) * scale_factor, height.max(1) * scale_factor)
ComputeSize(width, height, scale) == <<Max(width, 1) * scale, Max(height, 1) * scale>>

\* a comparison of the widths alone
NeedsExportWidthOnly(size, last) == size[1] # last[1]

\* no comparison at all: every poll of a ready window exports
NeedsExportAlways(size, last) == TRUE

\* the negation of `if size == window.last_render_target_size { continue; }`
NeedsExport(size, last) == size # last

\* render::setup_render_target: a new image of `size`, its texture view and the
\* fd of its memory; n numbers the allocation.
setup_render_target(size, n) ==
    [manual_texture_view |-> [texture_view |-> n, size |-> size], dmabuf_fd |-> n]

\* one native call of the exporter: the objects it is given, what it asks for
\* (extent, external-memory handle type, allocation size) and what it returns.
\* 0 and <<>> stand for "not an argument of this call".
NativeCall(call, image, memory, extent, external_memory, allocation_size, fd) ==
    [call |-> call, image |-> image, memory |-> memory, extent |-> extent,
     external_memory |-> external_memory, allocation_size |-> allocation_size,
     fd |-> fd, ok |-> TRUE]

\* the size get_image_memory_requirements2 reports for image n: the driver's
\* choice, one value per image
memory_requirements(n) == n

\* an exporter that asks for the file descriptor before it binds the memory
ExporterCallsFdBeforeBind(size, n) ==
    << NativeCall("create_image", n, 0, size, TRUE, 0, 0),
       NativeCall("get_image_memory_requirements2", n, 0, <<>>, FALSE,
                  memory_requirements(n), 0),
       NativeCall("allocate_memory", n, n, <<>>, TRUE, memory_requirements(n), 0),
       NativeCall("get_memory_fd", 0, n, <<>>, TRUE, 0, n),
       NativeCall("bind_image_memory2", n, n, <<>>, FALSE, 0, 0),
       NativeCall("texture_from_raw", n, 0, size, FALSE, 0, 0),
       NativeCall("create_texture_from_hal", n, 0, size, FALSE, 0, 0),
       NativeCall("create_view", n, 0, <<>>, FALSE, 0, 0) >>

\* render::setup_render_target, call by call: the image of the requested extent
\* with the OPAQUE_FD handle type, the query of that image's requirements, the
\* dedicated exportable allocation of the queried size, the bind, the fd of the
\* memory, then the two texture wrappers and the view. n numbers the image, its
\* memory and its fd.
ExporterCalls(size, n) ==
    << NativeCall("create_image", n, 0, size, TRUE, 0, 0),
       NativeCall("get_image_memory_requirements2", n, 0, <<>>, FALSE,
                  memory_requirements(n), 0),
       NativeCall("allocate_memory", n, n, <<>>, TRUE, memory_requirements(n), 0),
       NativeCall("bind_image_memory2", n, n, <<>>, FALSE, 0, 0),
       NativeCall("get_memory_fd", 0, n, <<>>, TRUE, 0, n),
       NativeCall("texture_from_raw", n, 0, size, FALSE, 0, 0),
       NativeCall("create_texture_from_hal", n, 0, size, FALSE, 0, 0),
       NativeCall("create_view", n, 0, <<>>, FALSE, 0, 0) >>

\* the calls whose result the exporter unwraps with `.expect`
FallibleCalls == {"create_image", "allocate_memory", "bind_image_memory2", "get_memory_fd"}

\* the positions at which a run of the exporter can end in a panic
FailPoints ==
    {k \in 1..Len(ExporterCalls(<<0, 0>>, 0)) :
        ExporterCalls(<<0, 0>>, 0)[k].call \in FallibleCalls}

\* the calls a run of the exporter makes: every call when fail_at = 0, and the
\* calls up to the failing one, which returns nothing, otherwise
NativeCalls(size, n, fail_at) ==
    IF fail_at = 0 THEN ExporterCalls(size, n)
    ELSE [i \in 1..fail_at |->
            IF i < fail_at THEN ExporterCalls(size, n)[i]
            ELSE [ExporterCalls(size, n)[i] EXCEPT !.ok = FALSE, !.fd = 0]]

\* a descriptor that carries the fd alone and no reference to the texture view
FrameInfoNoView(size, fd, texture_view) == [size |-> size, fd |-> fd, texture_view |-> 0]

\* FrameInfo { dmabuf: DmabufInfo { size, fd }, _texture_view }
FrameInfo(size, fd, texture_view) == [size |-> size, fd |-> fd, texture_view |-> texture_view]

\* ------------------------------------------------------------------ Init
\* The state after AdwaitaWindowPlugin::build with the default configuration: the
\* primary window is open with the sampled handle, its WindowOpen request is in
\* the channel, no size has been reported.
InitWith(handle) ==
    /\ ent = [w \in Windows |-> IF w = PrimaryWindow THEN "open" ELSE "none"]
    /\ render_target_width = [w \in Windows |-> Sentinel]
    /\ render_target_height = [w \in Windows |-> Sentinel]
    /\ scale_factor = [w \in Windows |-> Sentinel]
    /\ closed = [w \in Windows |-> FALSE]
    /\ render_target_handle = [w \in Windows |-> IF w = PrimaryWindow THEN handle ELSE 0]
    /\ last_render_target_size = [w \in Windows |-> <<0, 0>>]
    /\ next_frame_to_render = [w \in Windows |-> None]
    /\ shared_next_frame = [w \in Windows |-> None]
    /\ manual_texture_views = [h \in Handles |-> None]
    /\ render_windows = {}
    /\ phase = "extract"
    /\ send_window_open = <<PrimaryWindow>>
    /\ send_command = [w \in Windows |-> <<>>]
    /\ recv_command_alive = [w \in Windows |-> TRUE]
    /\ main_pc = [op |-> "run", win |-> 0, msg |-> None]
    /\ ui_windows = {}
    /\ ui_taken = [w \in Windows |-> <<>>]
    /\ ui_commands = [w \in Windows |-> None]
    /\ ui_released = [w \in Windows |-> 0]
    /\ ui_report = [w \in Windows |->
                      [cur |-> <<Sentinel, Sentinel, Sentinel>>, pending |-> {},
                       reported |-> {}]]
    /\ exports = <<>>
    /\ observed = [w \in Windows |-> <<>>]
    /\ fresh = [w \in Windows |-> FALSE]
    /\ reports = [w \in Windows |-> 0]
    /\ last_stored_a = [w \in Windows |-> 0]
    /\ last_stored_b = [w \in Windows |-> 0]
    /\ overwritten_a = {}
    /\ overwritten_b = {}
    /\ extracted = [w \in Windows |-> 0]
    /\ toggle_calls = 0
    /\ rendered = FALSE
    /\ native_calls = <<>>
    /\ schedule = "PreUpdate"
    /\ app_exit = <<>>
    /\ observed_close = {}

\* no call of build_dmabuf_texture has been made
NoBuild == [size |-> <<0, 0>>, fd |-> 0, accepted |-> TRUE, out |-> None]

\* AdwaitaWindowPlugin::default()
DefaultPlugin == exit_condition = "OnAllClosed"

\* The relay and the commands never read the value of a handle: one
\* representative handle stands for every sample.
Init == InitWith(1) /\ built = NoBuild /\ DefaultPlugin

\* Where handles are compared, the primary window's handle is any sample.
InitOpen == (\E h \in Handles : InitWith(h)) /\ built = NoBuild /\ DefaultPlugin

\* ---------------------------------------------------------- poll_windows
\* The state poll_windows reads and writes, as one record threaded through the loop.
PollState ==
    [ent |-> ent, last |-> last_render_target_size, slot_a |-> next_frame_to_render,
     views |-> manual_texture_views, exports |-> exports, observed |-> observed,
     fresh |-> fresh, last_stored_a |-> last_stored_a, overwritten_a |-> overwritten_a,
     native_calls |-> native_calls]

\* the export branch of the loop body: lines 340-360
ExportWindow(st, w, size) ==
    LET n == Len(st.exports) + 1
        target == setup_render_target(size, n)
        frame == FrameInfo(size, target.dmabuf_fd, target.manual_texture_view.texture_view)
    IN  [st EXCEPT !.last[w] = size,
                   !.views[render_target_handle[w]] = Some(target.manual_texture_view),
                   !.slot_a[w] = StoreBox(st.slot_a[w], Some(frame)),
                   !.exports = Append(st.exports, [win |-> w, size |-> size]),
                   !.last_stored_a[w] = frame.fd,
                   !.overwritten_a = st.overwritten_a \cup Dropped(st.slot_a[w]),
                   !.native_calls = NativeCalls(size, n, 0)]

\* the loop body of an open window below the `closed` check: lines 323-360
PollSize(st, w) ==
    LET width == render_target_width[w]
        height == render_target_height[w]
        scale == scale_factor[w]
        seen == [st EXCEPT !.fresh[w] = FALSE]
    IN  IF ~SizeReady(width, height, scale) THEN seen
        ELSE LET size == ComputeSize(width, height, scale)
                 noted == IF st.fresh[w]
                          THEN [seen EXCEPT !.observed[w] =
                                   Append(@, [report |-> <<width, height, scale>>,
                                              size |-> size])]
                          ELSE seen
             IN  IF NeedsExport(size, st.last[w])
                 THEN ExportWindow(noted, w, size)
                 ELSE noted

\* commands.entity(entity).despawn_recursive()
Despawn(st, w) == [st EXCEPT !.ent[w] = "despawned"]

\* a loop body that despawns a closed window and forgets the `continue`
PollWindowNoContinue(st, w) ==
    IF st.ent[w] # "open" THEN st
    ELSE IF closed[w] THEN Despawn(PollSize(st, w), w)
    ELSE PollSize(st, w)

\* one iteration of `for (entity, mut window) in &mut windows`
PollWindow(st, w) ==
    IF st.ent[w] # "open" THEN st
    ELSE IF closed[w] THEN Despawn(st, w)
    ELSE PollSize(st, w)

RECURSIVE PollFrom(_, _)
PollFrom(st, w) ==
    IF w > MaxWindows THEN st ELSE PollFrom(PollWindow(st, w), w + 1)

\* the system itself: the loop over every window entity, and the despawn
\* commands it queued applied when its schedule ends
PollWindows ==
    /\ main_pc.op = "run"
    /\ LET st == PollFrom(PollState, 1)
       IN  /\ ent' = st.ent
           /\ last_render_target_size' = st.last
           /\ next_frame_to_render' = st.slot_a
           /\ manual_texture_views' = st.views
           /\ exports' = st.exports
           /\ observed' = st.observed
           /\ fresh' = st.fresh
           /\ last_stored_a' = st.last_stored_a
           /\ overwritten_a' = st.overwritten_a
           /\ native_calls' = st.native_calls
    /\ UNCHANGED <<render_target_handle, atomicVars, shared_next_frame, renderVars,
                   chanVars, uiVars, reports, last_stored_b, overwritten_b, extracted,
                   rendered>>

\* poll_windows where the rest of the main world's pass is left out
poll_windows == PollWindows /\ UNCHANGED appVars

\* ------------------------------------- poll_windows, a native call fails
\* the windows before f in the order of the loop have been polled
RECURSIVE PollBefore(_, _)
PollBefore(st, f) ==
    IF f = 1 THEN st ELSE PollWindow(PollBefore(st, f - 1), f - 1)

\* the loop body of window w reaches the call of setup_render_target
ReachesExport(st, w) ==
    /\ st.ent[w] = "open"
    /\ ~closed[w]
    /\ SizeReady(render_target_width[w], render_target_height[w], scale_factor[w])
    /\ NeedsExport(ComputeSize(render_target_width[w], render_target_height[w],
                               scale_factor[w]), st.last[w])

\* a failure that is swallowed: the export branch runs as if the call succeeded
AllocFailsStoresFrame(st, w, size) == ExportWindow(st, w, size)

\* lines 341-344 when create_image, allocate_memory, bind_image_memory2 or
\* get_memory_fd returns an error: last_render_target_size is already assigned,
\* `.expect` panics inside setup_render_target, and nothing below runs.
AllocFails(st, w, size) == [st EXCEPT !.last[w] = size]

\* the loop body of window w up to the panic
PollSizeFails(st, w) ==
    LET size == ComputeSize(render_target_width[w], render_target_height[w],
                            scale_factor[w])
        seen == [st EXCEPT !.fresh[w] = FALSE]
        noted == IF st.fresh[w]
                 THEN [seen EXCEPT !.observed[w] =
                          Append(@, [report |-> <<render_target_width[w],
                                                  render_target_height[w],
                                                  scale_factor[w]>>,
                                     size |-> size])]
                 ELSE seen
    IN  AllocFails(noted, w, size)

\* poll_windows in which the export of window f fails: the system panics, the
\* despawn commands it queued are never applied, and the main thread is gone.
poll_windows_alloc_fails ==
    /\ main_pc.op = "run"
    /\ \E f \in Windows :
         /\ ReachesExport(PollBefore(PollState, f), f)
         /\ LET st == PollSizeFails(PollBefore(PollState, f), f)
            IN  /\ last_render_target_size' = st.last
                /\ next_frame_to_render' = st.slot_a
                /\ manual_texture_views' = st.views
                /\ exports' = st.exports
                /\ observed' = st.observed
                /\ fresh' = st.fresh
                /\ last_stored_a' = st.last_stored_a
                /\ overwritten_a' = st.overwritten_a
                /\ main_pc' = [op |-> "panicked", win |-> f, msg |-> Some(st.last[f])]
                /\ \E k \in FailPoints :
                     native_calls' = NativeCalls(st.last[f], Len(st.exports) + 1, k)
    /\ UNCHANGED <<appVars, ent, render_target_handle, atomicVars, shared_next_frame, renderVars,
                   send_window_open, send_command, recv_command_alive, toggle_calls,
                   uiVars, reports, last_stored_b, overwritten_b, extracted, rendered>>

\* ------------------------------------------------- the exit systems
ExitConditions == {"OnPrimaryClosed", "OnAllClosed", "DontExit"}

\* the marker build() inserts on the window it opens itself
HasPrimaryAdwaitaWindow(w) == w = PrimaryWindow

\* Query<(), With<AdwaitaWindow>>
AdwaitaWindows == {w \in Windows : ent[w] = "open"}

\* Query<(), (With<AdwaitaWindow>, With<PrimaryAdwaitaWindow>)>
PrimaryAdwaitaWindows == {w \in AdwaitaWindows : HasPrimaryAdwaitaWindow(w)}

\* app_exit_events.send(AppExit::Success)
SendAppExit(events) == Append(events, "Success")

exit_on_primary_closed(events) ==
    IF PrimaryAdwaitaWindows = {} THEN SendAppExit(events) ELSE events

\* an exit system that does not count the windows opened after the primary one
exit_on_all_closed_primary_only(events) == exit_on_primary_closed(events)

exit_on_all_closed(events) ==
    IF AdwaitaWindows = {} THEN SendAppExit(events) ELSE events

\* the systems build() adds to PostUpdate: `match self.exit_condition`
PostUpdateSystems(events) ==
    CASE exit_condition = "OnPrimaryClosed" -> exit_on_primary_closed(events)
      [] exit_condition = "OnAllClosed" -> exit_on_all_closed(events)
      [] OTHER -> events

\* PreUpdate of a pass of the main world: poll_windows, at the start of the pass
PreUpdate ==
    /\ schedule = "PreUpdate"
    /\ PollWindows
    /\ schedule' = "PostUpdate"
    /\ app_exit' = <<>>
    /\ observed_close' = {w \in Windows : ent[w] = "open" /\ ent'[w] = "despawned"}
    /\ UNCHANGED exit_condition

\* PostUpdate of the pass: the exit system of the configured condition, if any
PostUpdate ==
    /\ schedule = "PostUpdate"
    /\ main_pc.op = "run"
    /\ app_exit' = PostUpdateSystems(app_exit)
    /\ schedule' = "PreUpdate"
    /\ UNCHANGED <<mainVars, atomicVars, slotVars, renderVars, chanVars, uiVars, histVars,
                   exit_condition, observed_close>>

\* ------------------------------------------------------- the render pass
\* a schedule that runs send_frame_to_windows before RenderSet::Render
PhaseAfterSendFirst(p) ==
    CASE p = "extract" -> "send"
      [] p = "send" -> "render"
      [] p = "render" -> "last"
      [] OTHER -> "extract"

\* the order of the render app's systems in one pass: ExtractSchedule, then
\* RenderSet::Render, then send_frame_to_windows (.after(RenderSet::Render)),
\* then Last; the next pass starts with ExtractSchedule again.
PhaseAfter(p) ==
    CASE p = "extract" -> "render"
      [] p = "render" -> "send"
      [] p = "send" -> "last"
      [] OTHER -> "extract"

\* a read of the Option that leaves the value in place
OptionTakePeek(opt) == [value |-> opt, left |-> opt]

\* Option::take on next_frame_to_send: returns the value and leaves None
OptionTake(opt) == [value |-> opt, left |-> None]

\* RenderWindow { shared_next_frame, next_frame_to_render, next_frame_to_send }:
\* the two slots are the Arcs of window `win`.
RenderWindow(w, frame) == [win |-> w, next_frame_to_send |-> frame]

Carried(w) == {rw \in render_windows : rw.win = w /\ rw.next_frame_to_send # None}

extract_windows ==
    /\ phase = "extract"
    /\ LET taking == {w \in Windows : ent[w] = "open"
                                       /\ TakeBox(next_frame_to_render[w]).value # None}
       IN  /\ next_frame_to_render' =
                 [w \in Windows |-> IF ent[w] = "open"
                                    THEN TakeBox(next_frame_to_render[w]).left
                                    ELSE next_frame_to_render[w]]
           /\ render_windows' = render_windows \cup
                 {RenderWindow(w, TakeBox(next_frame_to_render[w]).value) : w \in taking}
           /\ extracted' =
                 [w \in Windows |-> IF w \in taking
                                    THEN TakeBox(next_frame_to_render[w]).value[1].fd
                                    ELSE extracted[w]]
    /\ phase' = PhaseAfter("extract")
    /\ rendered' = FALSE
    /\ UNCHANGED <<appVars, mainVars, atomicVars, shared_next_frame, chanVars, uiVars, exports,
                   observed, fresh, reports, last_stored_a, last_stored_b, overwritten_a,
                   overwritten_b, native_calls>>

\* RenderSet::Render: the pass renders into the registered targets
render ==
    /\ phase = "render"
    /\ phase' = PhaseAfter("render")
    /\ rendered' = TRUE
    /\ UNCHANGED <<appVars, mainVars, atomicVars, slotVars, render_windows, chanVars, uiVars,
                   exports, observed, fresh, reports, last_stored_a, last_stored_b,
                   overwritten_a, overwritten_b, extracted, native_calls>>

send_frame_to_windows ==
    /\ phase = "send"
    /\ shared_next_frame' =
          [w \in Windows |->
              IF Carried(w) # {}
              THEN StoreBox(shared_next_frame[w],
                            (CHOOSE rw \in Carried(w) : TRUE).next_frame_to_send)
              ELSE shared_next_frame[w]]
    /\ last_stored_b' =
          [w \in Windows |->
              IF Carried(w) # {}
              THEN (CHOOSE rw \in Carried(w) : TRUE).next_frame_to_send[1].fd
              ELSE last_stored_b[w]]
    /\ overwritten_b' = overwritten_b \cup
          UNION {Dropped(shared_next_frame[w]) : w \in {x \in Windows : Carried(x) # {}}}
    /\ render_windows' = {RenderWindow(rw.win, OptionTake(rw.next_frame_to_send).left) :
                             rw \in render_windows}
    /\ phase' = PhaseAfter("send")
    /\ UNCHANGED <<appVars, mainVars, atomicVars, next_frame_to_render, chanVars, uiVars, exports,
                   observed, fresh, reports, last_stored_a, overwritten_a, extracted,
                   rendered, native_calls>>

\* a plausible slip: `store(window.next_frame_to_send.take())` without the `if let`
PutBackUnconditional(slot, carried) ==
    IF carried # {}
    THEN StoreBox(slot, (CHOOSE rw \in carried : TRUE).next_frame_to_send)
    ELSE StoreBox(slot, None)

\* what put_back_next_frame_if_not_sent leaves in slot A of a window whose
\* RenderWindows carrying a frame are `carried`
PutBack(slot, carried) ==
    IF carried # {}
    THEN StoreBox(slot, (CHOOSE rw \in carried : TRUE).next_frame_to_send)
    ELSE slot

put_back_next_frame_if_not_sent ==
    /\ phase = "last"
    /\ next_frame_to_render' =
          [w \in Windows |-> PutBack(next_frame_to_render[w], Carried(w))]
    /\ last_stored_a' =
          [w \in Windows |->
              IF Carried(w) # {}
              THEN (CHOOSE rw \in Carried(w) : TRUE).next_frame_to_send[1].fd
              ELSE last_stored_a[w]]
    /\ overwritten_a' = overwritten_a \cup
          UNION {Dropped(next_frame_to_render[w]) : w \in {x \in Windows : Carried(x) # {}}}
    /\ render_windows' = {RenderWindow(rw.win, OptionTake(rw.next_frame_to_send).left) :
                             rw \in render_windows}
    /\ phase' = PhaseAfter("last")
    /\ UNCHANGED <<appVars, mainVars, atomicVars, shared_next_frame, chanVars, uiVars, exports,
                   observed, fresh, reports, last_stored_b, overwritten_b, extracted,
                   rendered, native_calls>>

\* ------------------------------------------------------------ UI thread
\* main_thread_loop receives a WindowOpen request and from then on owns the
\* window's atomics, slot B and recv_command.
UiRecvOpen ==
    /\ send_window_open # <<>>
    /\ ui_windows' = ui_windows \cup {Head(send_window_open)}
    /\ send_window_open' = Tail(send_window_open)
    /\ UNCHANGED <<appVars, mainVars, atomicVars, slotVars, renderVars, send_command,
                   recv_command_alive, main_pc, toggle_calls, ui_taken, ui_commands,
                   ui_released, built, ui_report, histVars>>

UiCanReport(w) == w \in ui_windows /\ ~closed[w] /\ reports[w] < MaxReports

UiStoreWidth(w, v) ==
    /\ UiCanReport(w)
    /\ render_target_width' = [render_target_width EXCEPT ![w] = v]
    /\ fresh' = [fresh EXCEPT ![w] = TRUE]
    /\ reports' = [reports EXCEPT ![w] = @ + 1]
    /\ UNCHANGED <<appVars, mainVars, render_target_height, scale_factor, closed, slotVars,
                   renderVars, chanVars, uiVars, exports, observed, last_stored_a,
                   last_stored_b, overwritten_a, overwritten_b, extracted, rendered, native_calls>>

UiStoreHeight(w, v) ==
    /\ UiCanReport(w)
    /\ render_target_height' = [render_target_height EXCEPT ![w] = v]
    /\ fresh' = [fresh EXCEPT ![w] = TRUE]
    /\ reports' = [reports EXCEPT ![w] = @ + 1]
    /\ UNCHANGED <<appVars, mainVars, render_target_width, scale_factor, closed, slotVars,
                   renderVars, chanVars, uiVars, exports, observed, last_stored_a,
                   last_stored_b, overwritten_a, overwritten_b, extracted, rendered, native_calls>>

UiStoreScale(w, v) ==
    /\ UiCanReport(w)
    /\ scale_factor' = [scale_factor EXCEPT ![w] = v]
    /\ fresh' = [fresh EXCEPT ![w] = TRUE]
    /\ reports' = [reports EXCEPT ![w] = @ + 1]
    /\ UNCHANGED <<appVars, mainVars, render_target_width, render_target_height, closed, slotVars,
                   renderVars, chanVars, uiVars, exports, observed, last_stored_a,
                   last_stored_b, overwritten_a, overwritten_b, extracted, rendered, native_calls>>

UiClose(w) ==
    /\ w \in ui_windows
    /\ ~closed[w]
    /\ closed' = [closed EXCEPT ![w] = TRUE]
    /\ UNCHANGED <<appVars, mainVars, render_target_width, render_target_height, scale_factor,
                   slotVars, renderVars, chanVars, uiVars, histVars>>

\* the UI side's take on slot B; a frame it gets is the one it presents
UiTake(w) ==
    /\ w \in ui_windows
    /\ shared_next_frame' = [shared_next_frame EXCEPT ![w] = TakeBox(@).left]
    /\ ui_taken' = [ui_taken EXCEPT ![w] =
                      IF TakeBox(shared_next_frame[w]).value = None THEN @
                      ELSE Append(@, TakeBox(shared_next_frame[w]).value[1])]
    /\ UNCHANGED <<appVars, mainVars, atomicVars, next_frame_to_render, renderVars, chanVars,
                   ui_windows, ui_commands, ui_released, built, ui_report, histVars>>

\* the fields of a report, in the order of the triple
Fields == <<"width", "height", "scale">>

\* The UI's window changes to width, height and scale t: the UI will store every
\* field whose value changed, each with its own atomic store.
UiReport(w, t) ==
    /\ UiCanReport(w)
    /\ ui_report[w].pending = {}
    /\ t # ui_report[w].cur
    /\ LET changed == {i \in 1..3 : t[i] # ui_report[w].cur[i]}
       IN  /\ reports[w] + Cardinality(changed) <= MaxReports
           /\ ui_report' = [ui_report EXCEPT ![w] =
                               [cur |-> t, pending |-> changed,
                                reported |-> @.reported \cup {t}]]
    /\ UNCHANGED <<appVars, mainVars, atomicVars, slotVars, renderVars, chanVars, ui_windows,
                   ui_taken, ui_commands, ui_released, built, histVars>>

\* one of the stores of the report in progress
UiStorePending(w, i) ==
    /\ w \in ui_windows
    /\ i \in ui_report[w].pending
    /\ render_target_width' =
          IF Fields[i] = "width"
          THEN [render_target_width EXCEPT ![w] = ui_report[w].cur[i]]
          ELSE render_target_width
    /\ render_target_height' =
          IF Fields[i] = "height"
          THEN [render_target_height EXCEPT ![w] = ui_report[w].cur[i]]
          ELSE render_target_height
    /\ scale_factor' =
          IF Fields[i] = "scale"
          THEN [scale_factor EXCEPT ![w] = ui_report[w].cur[i]]
          ELSE scale_factor
    /\ ui_report' = [ui_report EXCEPT ![w].pending = @ \ {i}]
    /\ fresh' = [fresh EXCEPT ![w] = TRUE]
    /\ reports' = [reports EXCEPT ![w] = @ + 1]
    /\ UNCHANGED <<appVars, mainVars, closed, slotVars, renderVars, chanVars, ui_windows,
                   ui_taken, ui_commands, ui_released, built, exports, observed,
                   last_stored_a, last_stored_b, overwritten_a, overwritten_b,
                   extracted, rendered, native_calls>>

\* the UI destroys a closed window and drops every descriptor it took for it
UiDropFrames(w) ==
    /\ w \in ui_windows
    /\ closed[w]
    /\ ui_released[w] < Len(ui_taken[w])
    /\ ui_released' = [ui_released EXCEPT ![w] = Len(ui_taken[w])]
    /\ UNCHANGED <<appVars, mainVars, atomicVars, slotVars, renderVars, chanVars, ui_windows,
                   ui_taken, ui_commands, built, ui_report, histVars>>

\* ------------------------------------------------ build_dmabuf_texture
U32Modulus == 2 ^ WordBits

\* the arguments the function is called with: widths on both sides of the point
\* where width * 4 leaves the word, heights, fds, and whether GDK accepts
SurfaceWidths == {0, 1, 2, U32Modulus \div 4 - 1, U32Modulus \div 4, U32Modulus - 1}
SurfaceHeights == {0, 1, U32Modulus - 1}
SurfaceFds == {0, 3, 7}

\* u32 `*`: the product, or None where it leaves the word and the build checks
\* overflow (debug profile); where it does not check, the product wraps
MulU32(a, b, overflow_checks) ==
    IF a * b >= U32Modulus /\ overflow_checks THEN None
    ELSE Some((a * b) % U32Modulus)

\* render::build_dmabuf_texture(size, fd): the builder's fields as the setters
\* leave them, and `unsafe { builder.build() }.expect(..)`
build_dmabuf_texture(size, fd, overflow_checks, accepted) ==
    LET stride == MulU32(size[1], BytesPerPixel, overflow_checks)
    IN  IF stride = None THEN [result |-> "panic", texture |-> None]
        ELSE IF ~accepted THEN [result |-> "panic", texture |-> None]
        ELSE [result |-> "ok",
              texture |-> Some([width |-> size[1], height |-> size[2],
                                fourcc |-> Fourcc, modifier |-> Modifier,
                                n_planes |-> PlaneCount,
                                planes |-> [i \in 0..(PlaneCount - 1) |->
                                              [fd |-> fd, offset |-> PlaneOffset,
                                               stride |-> stride[1]]]])]

\* one call of build_dmabuf_texture with the arguments `built` holds
BuildTexture(overflow_checks) ==
    /\ built.out = None
    /\ built' = [built EXCEPT !.out = Some(build_dmabuf_texture(built.size, built.fd,
                                                                overflow_checks,
                                                                built.accepted))]
    /\ UNCHANGED <<appVars, mainVars, atomicVars, slotVars, renderVars, chanVars, ui_windows,
                   ui_taken, ui_commands, ui_released, ui_report, histVars>>

\* -------------------------------------------------- AdwaitaWindow::open
\* The entity command up to the insert of the component: the handle is sampled
\* until the registry does not contain it.
open(w) ==
    /\ main_pc.op = "run"
    /\ ent[w] = "none"
    /\ \E h \in Handles :
         /\ manual_texture_views[h] = None
         /\ render_target_handle' = [render_target_handle EXCEPT ![w] = h]
    /\ ent' = [ent EXCEPT ![w] = "open"]
    /\ main_pc' = [op |-> "send_open", win |-> w, msg |-> None]
    /\ UNCHANGED <<appVars, last_render_target_size, manual_texture_views, atomicVars, slotVars,
                   renderVars, send_window_open, send_command, recv_command_alive,
                   toggle_calls, uiVars, histVars>>

\* `.send(request)` on the bounded(1) channel: completes once there is room
open_send ==
    /\ main_pc.op = "send_open"
    /\ Len(send_window_open) < WindowOpenCapacity
    /\ send_window_open' = Append(send_window_open, main_pc.win)
    /\ main_pc' = [op |-> "run", win |-> 0, msg |-> None]
    /\ UNCHANGED <<appVars, mainVars, atomicVars, slotVars, renderVars, send_command,
                   recv_command_alive, toggle_calls, uiVars, histVars>>

\* ------------------------------------------------------ window commands
WindowCommand(kind, arg) == [kind |-> kind, arg |-> arg]

\* the caller enters `self.send_command.send(cmd)`
CallSend(w, cmd) ==
    /\ main_pc.op = "run"
    /\ ent[w] = "open"
    /\ main_pc' = [op |-> "send_command", win |-> w, msg |-> Some(cmd)]

set_maximized(w, maximized) ==
    /\ toggle_calls < MaxToggleCalls
    /\ CallSend(w, WindowCommand("SetMaximized", maximized))
    /\ toggle_calls' = toggle_calls + 1
    /\ UNCHANGED <<appVars, mainVars, atomicVars, slotVars, renderVars, send_window_open,
                   send_command, recv_command_alive, uiVars, histVars>>

set_fullscreen(w, fullscreen) ==
    /\ toggle_calls < MaxToggleCalls
    /\ CallSend(w, WindowCommand("SetFullscreen", fullscreen))
    /\ toggle_calls' = toggle_calls + 1
    /\ UNCHANGED <<appVars, mainVars, atomicVars, slotVars, renderVars, send_window_open,
                   send_command, recv_command_alive, uiVars, histVars>>

set_title(w, title) ==
    /\ CallSend(w, WindowCommand("SetTitle", title))
    /\ UNCHANGED <<appVars, mainVars, atomicVars, slotVars, renderVars, send_window_open,
                   send_command, recv_command_alive, toggle_calls, uiVars, histVars>>

\* flume::Sender::send on a bounded channel: Err at once when the receiver is
\* gone (the caller ignores it), otherwise it waits for room and enqueues.
SendReturns(queue, alive, capacity) == ~alive \/ Len(queue) < capacity

command_send ==
    /\ main_pc.op = "send_command"
    /\ SendReturns(send_command[main_pc.win], recv_command_alive[main_pc.win],
                   CommandCapacity)
    /\ send_command' =
          IF recv_command_alive[main_pc.win]
          THEN [send_command EXCEPT ![main_pc.win] = Append(@, main_pc.msg[1])]
          ELSE send_command
    /\ main_pc' = [op |-> "run", win |-> 0, msg |-> None]
    /\ UNCHANGED <<appVars, mainVars, atomicVars, slotVars, renderVars, send_window_open,
                   recv_command_alive, toggle_calls, uiVars, histVars>>

\* the UI loop receives one command of a window it knows
UiRecvCommand(w) ==
    /\ w \in ui_windows
    /\ recv_command_alive[w]
    /\ send_command[w] # <<>>
    /\ send_command' = [send_command EXCEPT ![w] = Tail(@)]
    /\ ui_commands' = [ui_commands EXCEPT ![w] = Some(Head(send_command[w]))]
    /\ UNCHANGED <<appVars, mainVars, atomicVars, slotVars, renderVars, send_window_open,
                   recv_command_alive, main_pc, toggle_calls, ui_windows, ui_taken,
                   ui_released, built, ui_report, histVars>>

\* the UI destroys a closed window's state and with it recv_command
UiDropReceiver(w) ==
    /\ w \in ui_windows
    /\ closed[w]
    /\ recv_command_alive[w]
    /\ recv_command_alive' = [recv_command_alive EXCEPT ![w] = FALSE]
    /\ send_command' = [send_command EXCEPT ![w] = <<>>]
    /\ UNCHANGED <<appVars, mainVars, atomicVars, slotVars, renderVars, send_window_open,
                   main_pc, toggle_calls, uiVars, histVars>>

\* ------------------------------------------------------- specifications
RenderPass ==
    \/ extract_windows
    \/ render
    \/ send_frame_to_windows
    \/ put_back_next_frame_if_not_sent

UiReports ==
    \/ \E w \in Windows, v \in Dims : UiStoreWidth(w, v)
    \/ \E w \in Windows, v \in Dims : UiStoreHeight(w, v)
    \/ \E w \in Windows, v \in Scales : UiStoreScale(w, v)

\* the reports the relay is run against: fewer than the resize policy needs
RelayReports ==
    \/ \E w \in Windows, v \in Dims :
          reports[w] < MaxRelayReports /\ UiStoreWidth(w, v)
    \/ \E w \in Windows, v \in Dims :
          reports[w] < MaxRelayReports /\ UiStoreHeight(w, v)
    \/ \E w \in Windows, v \in Scales :
          reports[w] < MaxRelayReports /\ UiStoreScale(w, v)

Next ==
    \/ poll_windows
    \/ RenderPass
    \/ UiRecvOpen
    \/ RelayReports
    \/ \E w \in Windows : UiClose(w)
    \/ \E w \in Windows : UiTake(w)

Spec == Init /\ [][Next]_vars

\* The relay with both loops running: the main world keeps polling, the render
\* app keeps running its passes, and the UI loop keeps receiving and taking.
Fairness ==
    /\ WF_vars(poll_windows)
    /\ WF_vars(RenderPass)
    /\ WF_vars(UiRecvOpen)
    /\ \A w \in Windows : WF_vars(UiTake(w))

SpecLive == Init /\ [][Next]_vars /\ Fairness

\* The relay up to the teardown of a closed window on both sides.
NextTeardown ==
    \/ Next
    \/ \E w \in Windows : UiDropFrames(w)

SpecTeardown == Init /\ [][NextTeardown]_vars

\* The resize policy alone: the UI reports and closes, the main world polls.
NextPoll ==
    \/ poll_windows
    \/ UiRecvOpen
    \/ UiReports
    \/ \E w \in Windows : UiClose(w)

SpecPoll == Init /\ [][NextPoll]_vars

\* build_dmabuf_texture applied to each of its arguments, in either build profile.
InitSurface ==
    /\ InitWith(1)
    /\ DefaultPlugin
    /\ built \in [size : SurfaceWidths \X SurfaceHeights, fd : SurfaceFds,
                  accepted : BOOLEAN, out : {None}]

NextSurface == \E overflow_checks \in BOOLEAN : BuildTexture(overflow_checks)

SpecSurface == InitSurface /\ [][NextSurface]_vars

\* The resize policy against a UI that reports width, height and scale together
\* and stores them one atomic at a time.
NextTorn ==
    \/ poll_windows
    \/ UiRecvOpen
    \/ \E w \in Windows, t \in Dims \X Dims \X Scales : UiReport(w, t)
    \/ \E w \in Windows, i \in 1..3 : UiStorePending(w, i)

SpecTorn == Init /\ [][NextTorn]_vars

\* The resize policy when a native call of the exporter may fail.
NextAlloc ==
    \/ NextPoll
    \/ poll_windows_alloc_fails

SpecAlloc == Init /\ [][NextAlloc]_vars

\* Opening further windows while the primary window reports sizes and is polled.
NextOpen ==
    \/ \E w \in Windows : open(w)
    \/ open_send
    \/ UiRecvOpen
    \/ \E v \in Dims : UiStoreWidth(PrimaryWindow, v)
    \/ \E v \in Dims : UiStoreHeight(PrimaryWindow, v)
    \/ \E v \in Scales : UiStoreScale(PrimaryWindow, v)
    \/ poll_windows

SpecOpen == InitOpen /\ [][NextOpen]_vars

\* The command senders of the primary window against the UI loop.
NextCmd ==
    \/ \E b \in BOOLEAN : set_maximized(PrimaryWindow, b)
    \/ \E b \in BOOLEAN : set_fullscreen(PrimaryWindow, b)
    \/ \E t \in Titles : set_title(PrimaryWindow, t)
    \/ command_send
    \/ UiRecvOpen
    \/ UiRecvCommand(PrimaryWindow)
    \/ UiClose(PrimaryWindow)
    \/ UiDropReceiver(PrimaryWindow)

SpecCmd == Init /\ [][NextCmd]_vars

\* The plugin built with any exit condition: the main world runs its passes,
\* systems of the application open further windows, the UI closes windows.
InitExit == InitWith(1) /\ built = NoBuild /\ exit_condition \in ExitConditions

NextExit ==
    \/ PreUpdate
    \/ PostUpdate
    \/ \E w \in Windows : open(w)
    \/ open_send
    \/ UiRecvOpen
    \/ \E w \in Windows : UiClose(w)

SpecExit == InitExit /\ [][NextExit]_vars

\* ------------------------------------------------------------- history
Range(seq) == {seq[i] : i \in 1..Len(seq)}

\* the fds of the exports made for window w (an export's fd is its index)
ExportFds(w) == {i \in 1..Len(exports) : exports[i].win = w}

Holds(slot, n) == IF slot # None /\ slot[1].fd = n THEN 1 ELSE 0

\* the number of places that hold the frame with fd n of window w
Holders(w, n) ==
    Holds(next_frame_to_render[w], n) + Holds(shared_next_frame[w], n)
    + Cardinality({rw \in Carried(w) : rw.next_frame_to_send[1].fd = n})
    + Cardinality({i \in 1..Len(ui_taken[w]) : ui_taken[w][i].fd = n})

\* none of the three atomics of w holds a negative value
Ready(w) ==
    render_target_width[w] >= 0 /\ render_target_height[w] >= 0 /\ scale_factor[w] >= 0

\* the UI has stored each of the three atomics of w exactly once
OneReport(w) == reports[w] = 3 /\ Ready(w)

\* the pixel size the claims compute from the atomics of w:
\* (max(width,1)*scale, max(height,1)*scale)
CurrentSize(w) ==
    <<(IF render_target_width[w] > 1 THEN render_target_width[w] ELSE 1) * scale_factor[w],
      (IF render_target_height[w] > 1 THEN render_target_height[w] ELSE 1) * scale_factor[w]>>

\* ---------------------------------------------------------------- claims

\* C1: when the UI has reported one concrete size (w,h,scale) for an open window
\* and a poll has observed it, exactly one export was made, its descriptor has
\* size (max(w,1)*scale, max(h,1)*scale), the descriptor sits in exactly one of
\* slot A, a RenderWindow, slot B or the UI's hands (taken exactly once at most),
\* and no RenderWindow still carries it when the next pass starts.
C1_EndToEnd ==
    \A w \in Windows :
        (ent[w] = "open" /\ ~closed[w] /\ OneReport(w) /\ observed[w] # <<>>) =>
            /\ Cardinality(ExportFds(w)) = 1
            /\ \A n \in ExportFds(w) :
                  /\ exports[n].size = CurrentSize(w)
                  /\ Holders(w, n) = 1
            /\ (phase = "extract" => Carried(w) = {})

\* C2: put_back_next_frame_if_not_sent leaves slot A of a window as it is when no
\* RenderWindow of the window carries a descriptor, and stores the carried
\* descriptor into slot A when one does.
C2_PutBack ==
    [][put_back_next_frame_if_not_sent =>
         \A w \in Windows :
            /\ (Carried(w) = {} => next_frame_to_render'[w] = next_frame_to_render[w])
            /\ (Carried(w) # {} =>
                  \E rw \in Carried(w) : next_frame_to_render'[w] = rw.next_frame_to_send)
      ]_vars

\* C2 witness: a pass has extracted a frame, sent it, and reached its end with no
\* RenderWindow carrying anything while the poll has already stored a newer frame
\* into slot A.
C2_Witness ==
    /\ phase = "extract"
    /\ \E w \in Windows :
         /\ extracted[w] # 0
         /\ Carried(w) = {}
         /\ next_frame_to_render[w] # None
         /\ next_frame_to_render[w][1].fd > extracted[w]

\* C3: a non-empty slot holds the descriptor of the last store made on it, a take
\* returns that descriptor and empties the slot, and no descriptor that a store
\* dropped is returned by any take.
C3_Coalescing ==
    /\ [](\A w \in Windows :
            /\ next_frame_to_render[w] # None =>
                  next_frame_to_render[w][1].fd = last_stored_a[w]
            /\ shared_next_frame[w] # None =>
                  shared_next_frame[w][1].fd = last_stored_b[w]
            /\ extracted[w] \notin overwritten_a
            /\ {f.fd : f \in Range(ui_taken[w])} \cap overwritten_b = {})
    /\ [][\A w \in Windows :
            /\ extracted'[w] # extracted[w] =>
                  /\ extracted'[w] = last_stored_a[w]
                  /\ next_frame_to_render'[w] = None
            /\ Len(ui_taken'[w]) > Len(ui_taken[w]) =>
                  /\ ui_taken'[w][Len(ui_taken'[w])].fd = last_stored_b[w]
                  /\ shared_next_frame'[w] = None
       ]_vars

\* C3 witness: two stores into slot B without a take between them, the first
\* descriptor was dropped, and the UI's take returned the second.
C3_Witness ==
    \E w \in Windows :
        /\ ui_taken[w] # <<>>
        /\ \E n \in overwritten_b : ui_taken[w][Len(ui_taken[w])].fd > n
        /\ shared_next_frame[w] = None

\* an open window that the UI has not closed
Pollable(w) == ent[w] = "open" /\ ~closed[w]

\* C4: in a poll of a window that is not closed and whose three atomics are all
\* non-negative, the exporter is invoked (once) if and only if the computed pixel
\* size differs from last_render_target_size.
C4_ResizePolicy ==
    [][poll_windows =>
         \A w \in Windows :
            (Pollable(w) /\ Ready(w)) =>
               /\ (ExportFds(w)' # ExportFds(w)) <=>
                     (CurrentSize(w) # last_render_target_size[w])
               /\ Cardinality(ExportFds(w)') <= Cardinality(ExportFds(w)) + 1
      ]_vars

\* C4 witness: two polled reports that differ resolved to the same pixel size and
\* only one export was made.
C4_Witness ==
    \E w \in Windows :
        /\ Len(observed[w]) = 2
        /\ observed[w][1].size = observed[w][2].size
        /\ observed[w][1].report # observed[w][2].report
        /\ observed[w][1].size # <<0, 0>>
        /\ Cardinality(ExportFds(w)) = 1

AdjacentRepeats(seq) == {i \in 2..Len(seq) : seq[i].size = seq[i - 1].size}

HasRepeat(seq) == \E i, j \in 1..Len(seq) : i < j /\ seq[i].size = seq[j].size

\* C5 as stated: a polled report whose computed size repeats any previous value of
\* the sequence causes no export, and the export count is strictly less than the
\* number of polled reports whenever the sequence holds a duplicate.
C5_NoExportOnAnyRepeat ==
    /\ [](\A w \in Windows :
            HasRepeat(observed[w]) => Cardinality(ExportFds(w)) < Len(observed[w]))
    /\ [][poll_windows =>
            \A w \in Windows :
               (Pollable(w) /\ Ready(w) /\ fresh[w]
                  /\ CurrentSize(w) \in {o.size : o \in Range(observed[w])}) =>
                     ExportFds(w)' = ExportFds(w)
         ]_vars

\* C5 amended: a polled report whose computed size repeats the size computed for
\* the immediately preceding polled report causes no export, and every such
\* repeat leaves the export count one further below the number of polled reports.
C5_NoExportOnAdjacentRepeat ==
    /\ [](\A w \in Windows :
            Cardinality(ExportFds(w)) + Cardinality(AdjacentRepeats(observed[w]))
               <= Len(observed[w]))
    /\ [][poll_windows =>
            \A w \in Windows :
               (Pollable(w) /\ Ready(w) /\ fresh[w] /\ observed[w] # <<>>
                  /\ CurrentSize(w) = observed[w][Len(observed[w])].size) =>
                     ExportFds(w)' = ExportFds(w)
         ]_vars

\* C5 witness: three polled reports A, A, B: the repeat made no export, so two
\* exports stand against three reports.
C5_Witness ==
    \E w \in Windows :
        /\ Len(observed[w]) = 3
        /\ observed[w][1].size = observed[w][2].size
        /\ observed[w][3].size # observed[w][2].size
        /\ Cardinality(ExportFds(w)) = 2

\* C6: a poll of a window that is not closed and has a negative value in any of its
\* three atomics makes no export for it, stores nothing into slot A, leaves
\* last_render_target_size alone, keeps the entity and raises no error.
C6_SentinelGuard ==
    [][poll_windows =>
         \A w \in Windows :
            (Pollable(w) /\ ~Ready(w)) =>
               /\ ExportFds(w)' = ExportFds(w)
               /\ next_frame_to_render'[w] = next_frame_to_render[w]
               /\ last_render_target_size'[w] = last_render_target_size[w]
               /\ ent'[w] = "open"
               /\ main_pc' = main_pc
      ]_vars

\* C6 witness: a poll has looked at a window of which the UI had reported width and
\* height but not yet the scale factor, and made no export.
C6_Witness ==
    \E w \in Windows :
        /\ Pollable(w)
        /\ render_target_width[w] >= 0
        /\ render_target_height[w] >= 0
        /\ scale_factor[w] = Sentinel
        /\ ~fresh[w]
        /\ ExportFds(w) = {}
        /\ next_frame_to_render[w] = None

\* C7: once closed is set, no step makes an export for the window, the first poll
\* removes the entity, and the removal leaves slot B and what the UI side took
\* untouched.
C7_CloseHandling ==
    [][\A w \in Windows :
         /\ closed[w] => ExportFds(w)' = ExportFds(w)
         /\ (closed[w] /\ poll_windows) => ent'[w] # "open"
         /\ (ent[w] = "open" /\ ent'[w] = "despawned") =>
               /\ closed[w]
               /\ shared_next_frame'[w] = shared_next_frame[w]
               /\ ui_taken'[w] = ui_taken[w]
      ]_vars

\* C7 witness: the entity is gone after a resize and the close arrived together,
\* the last report was never exported, and slot B still holds a descriptor.
C7_Witness ==
    \E w \in Windows :
        /\ ent[w] = "despawned"
        /\ fresh[w]
        /\ Ready(w)
        /\ CurrentSize(w) # last_render_target_size[w]
        /\ shared_next_frame[w] # None

\* C8: no two windows that hold an AdwaitaWindow component have the same
\* render_target_handle.
C8_UniqueHandles ==
    \A w1, w2 \in Windows :
        (w1 # w2 /\ ent[w1] = "open" /\ ent[w2] = "open") =>
            render_target_handle[w1] # render_target_handle[w2]

\* C9: a caller that is inside a send (of a window command or of the window-open
\* request) is never waiting: the send can return at once.
C9_NonBlocking ==
    /\ main_pc.op = "send_command" =>
          SendReturns(send_command[main_pc.win], recv_command_alive[main_pc.win],
                      CommandCapacity)
    /\ main_pc.op = "send_open" => Len(send_window_open) < WindowOpenCapacity

\* C10: every call of the exporter received a size of at least 1 in each dimension.
C10_ExportSizeAtLeastOne ==
    \A i \in 1..Len(exports) : exports[i].size[1] >= 1 /\ exports[i].size[2] >= 1

\* C11: each slot of a window holds at most one descriptor, every descriptor an
\* export produced is held by at most one of slot A, a RenderWindow, slot B and the
\* UI side, and no step adds a holder to a descriptor that already exists.
C11_ExclusiveOwnership ==
    /\ [](\A w \in Windows :
            /\ Len(next_frame_to_render[w]) <= 1
            /\ Len(shared_next_frame[w]) <= 1
            /\ Cardinality(Carried(w)) <= 1
            /\ \A n \in ExportFds(w) : Holders(w, n) <= 1)
    /\ [][\A w \in Windows : \A n \in ExportFds(w) : Holders(w, n)' <= Holders(w, n)]_vars

\* C11 witness: the UI side holds the first descriptor while a RenderWindow carries
\* the second one, each of them held once.
C11_Witness ==
    \E w \in Windows :
        /\ Len(ui_taken[w]) = 1
        /\ Carried(w) # {}
        /\ \A rw \in Carried(w) : rw.next_frame_to_send[1].fd # ui_taken[w][1].fd
        /\ \A n \in ExportFds(w) : Holders(w, n) = 1

\* the descriptors of window w that are in slot A, carried, in slot B or with the UI
HeldFrames(w) ==
    Range(next_frame_to_render[w]) \cup Range(shared_next_frame[w])
    \cup {rw.next_frame_to_send[1] : rw \in Carried(w)} \cup Range(ui_taken[w])

\* the number of live owners of texture view n: the registry entries that refer to
\* it and the held descriptors that carry a reference to it
ViewOwners(n) ==
    Cardinality({h \in Handles : manual_texture_views[h] # None
                                  /\ manual_texture_views[h][1].texture_view = n})
    + Cardinality({<<w, f>> \in Windows \X UNION {HeldFrames(w) : w \in Windows} :
                      f \in HeldFrames(w) /\ f.texture_view = n})

\* C12: the texture view made by the export whose memory a held descriptor names
\* (the view with the number of the descriptor's fd) has at least one live owner,
\* whether or not the registry still refers to it and whether or not the window
\* entity still exists.
C12_TextureViewLifetime ==
    \A w \in Windows : \A f \in HeldFrames(w) : ViewOwners(f.fd) >= 1

\* C12 witness: the entity is gone, a later resize has replaced the registry entry,
\* and the UI side still holds the descriptor of the first export.
C12_Witness ==
    \E w \in Windows :
        /\ ent[w] = "despawned"
        /\ ui_taken[w] # <<>>
        /\ manual_texture_views[render_target_handle[w]] # None
        /\ manual_texture_views[render_target_handle[w]][1].texture_view
              # ui_taken[w][1].fd
        /\ ViewOwners(ui_taken[w][1].fd) = 1

\* C13: nothing is carried when a pass starts, a RenderWindow starts to carry a
\* descriptor only in the extraction that opens the pass (before its render phase),
\* and a step that stores a descriptor into slot B stores the one a RenderWindow
\* carries, which this pass extracted, after the render phase of this pass has run.
C13_PhaseOrdering ==
    /\ [](phase = "extract" => \A w \in Windows : Carried(w) = {})
    /\ [][\A w \in Windows :
            /\ (Carried(w)' # {} /\ Carried(w) = {}) =>
                  /\ phase = "extract"
                  /\ ~rendered'
                  /\ \A rw \in Carried(w)' : rw.next_frame_to_send[1].fd = extracted'[w]
            /\ (shared_next_frame'[w] # None
                   /\ shared_next_frame'[w] # shared_next_frame[w]) =>
                  /\ rendered
                  /\ \E rw \in Carried(w) : rw.next_frame_to_send = shared_next_frame'[w]
                  /\ shared_next_frame'[w][1].fd = extracted[w]
       ]_vars

\* C13 witness: the pass that extracted a descriptor has rendered and sent it: the
\* descriptor is in slot B and the pass is at its last phase.
C13_Witness ==
    \E w \in Windows :
        /\ phase = "last"
        /\ rendered
        /\ shared_next_frame[w] # None
        /\ shared_next_frame[w][1].fd = extracted[w]

\* the descriptors of window w that some holder has not dropped yet
LiveFrames(w) ==
    Range(next_frame_to_render[w]) \cup Range(shared_next_frame[w])
    \cup {rw.next_frame_to_send[1] : rw \in Carried(w)}
    \cup {ui_taken[w][i] : i \in (ui_released[w] + 1)..Len(ui_taken[w])}

\* C14: once a poll has removed the entity of a closed window and no holder keeps
\* a descriptor of the window any more, the texture-view registry has no entry
\* under the window's render_target_handle.
C14_TeardownReleases ==
    \A w \in Windows :
        (ent[w] = "despawned" /\ closed[w] /\ LiveFrames(w) = {}) =>
            manual_texture_views[render_target_handle[w]] = None

\* the texture view of the last export made for window w (0: none was made)
LastView(w) == IF ExportFds(w) = {} THEN 0
               ELSE CHOOSE n \in ExportFds(w) : \A m \in ExportFds(w) : m <= n

\* C15: the poll in which a native call of the exporter fails for a window stores
\* no descriptor into slot A of the window and makes no export of it, from then on
\* the registry entry of the window is the target of its last successful export
\* (or none), and no step exports the window while its computed size is still
\* the size of the failed attempt.
C15_AllocationFailure ==
    /\ [][\A w \in Windows :
            (main_pc.op = "run" /\ main_pc'.op = "panicked" /\ main_pc'.win = w) =>
               /\ next_frame_to_render'[w] = next_frame_to_render[w]
               /\ ExportFds(w)' = ExportFds(w)
               /\ main_pc'.msg = Some(CurrentSize(w))
       ]_vars
    /\ [](main_pc.op = "panicked" =>
            LET entry == manual_texture_views[render_target_handle[main_pc.win]]
            IN  IF LastView(main_pc.win) = 0 THEN entry = None
                ELSE entry # None /\ entry[1].texture_view = LastView(main_pc.win))
    /\ [][\A w \in Windows :
            (main_pc.op = "panicked" /\ main_pc.win = w
               /\ main_pc.msg = Some(CurrentSize(w))) =>
                  ExportFds(w)' = ExportFds(w)
       ]_vars

\* C15 witness: the second export of a window failed: slot A still holds the
\* descriptor of the first export, the registry entry is the first target, and the
\* failed size is the one last_render_target_size holds.
C15_Witness ==
    /\ main_pc.op = "panicked"
    /\ LET w == main_pc.win
       IN  /\ Cardinality(ExportFds(w)) = 1
           /\ next_frame_to_render[w] # None
           /\ next_frame_to_render[w][1].size # main_pc.msg[1]
           /\ manual_texture_views[render_target_handle[w]][1].size # main_pc.msg[1]
           /\ last_render_target_size[w] = main_pc.msg[1]

\* C16: a take on an empty box returns empty and leaves the box empty; the
\* extraction can always run when its phase comes, and for a window whose slot A
\* is empty it leaves the slot empty, extracts nothing and creates no RenderWindow;
\* the UI's take on an empty slot B can always run and gets nothing.
C16_EmptyTake ==
    /\ [](TakeBox(None) = [value |-> None, left |-> None])
    /\ [](phase = "extract" => ENABLED extract_windows)
    /\ [](\A w \in ui_windows : ENABLED UiTake(w))
    /\ [][extract_windows =>
            \A w \in Windows :
               next_frame_to_render[w] = None =>
                  /\ next_frame_to_render'[w] = None
                  /\ extracted'[w] = extracted[w]
                  /\ {rw \in render_windows' \ render_windows : rw.win = w} = {}
                  /\ Carried(w)' = {}
       ]_vars
    /\ [][\A w \in Windows :
            shared_next_frame[w] = None => ui_taken'[w] = ui_taken[w]]_vars

\* C16 witness: an extraction has run on a slot A that an earlier pass had drained
\* and the poll had not refilled: the slot is empty and nothing is carried.
C16_Witness ==
    \E w \in Windows :
        /\ phase = "render"
        /\ ent[w] = "open"
        /\ extracted[w] # 0
        /\ extracted[w] = last_stored_b[w]
        /\ next_frame_to_render[w] = None
        /\ Carried(w) = {}

\* C17: every call of build_dmabuf_texture that GDK accepts returns a surface with
\* the given width and height, fourcc 0x34324152, modifier 0, one plane, and plane
\* 0 = {the given fd, offset 0, stride width * 4}; a call that GDK rejects panics.
C17_SurfaceLayout ==
    built.out # None =>
        IF built.accepted
        THEN /\ built.out[1].result = "ok"
             /\ built.out[1].texture # None
             /\ LET t == built.out[1].texture[1]
                IN  /\ t.width = built.size[1]
                    /\ t.height = built.size[2]
                    /\ t.fourcc = 875708754
                    /\ t.modifier = 0
                    /\ t.n_planes = 1
                    /\ DOMAIN t.planes = {0}
                    /\ t.planes[0] = [fd |-> built.fd, offset |-> 0,
                                      stride |-> built.size[1] * 4]
        ELSE built.out[1] = [result |-> "panic", texture |-> None]

\* the last descriptor stored into slot B of w has the size computed from the
\* values the atomics of w hold now
LatestDelivered(w) ==
    /\ last_stored_b[w] # 0
    /\ exports[last_stored_b[w]].size = CurrentSize(w)

\* C18: for a window that stays open and whose UI has reported a width, a height
\* and a scale factor, from some point on the last descriptor made available
\* through slot B has the size computed from the final report.
C18_LatestSizeDelivered ==
    \A w \in Windows :
        ([]Pollable(w) /\ <>Ready(w)) => <>[]LatestDelivered(w)

\* C19: a step that stores a descriptor into slot B stores one of a later export
\* than every descriptor stored there before, a step that replaces the descriptor
\* in slot A replaces it with one of a later export, and the UI takes descriptors
\* in the order of their export.
C19_MonotoneDelivery ==
    [][\A w \in Windows :
         /\ (shared_next_frame'[w] # None
                /\ shared_next_frame'[w] # shared_next_frame[w]) =>
               shared_next_frame'[w][1].fd > last_stored_b[w]
         /\ last_stored_b'[w] >= last_stored_b[w]
         /\ (next_frame_to_render'[w] # None /\ next_frame_to_render[w] # None) =>
               next_frame_to_render'[w][1].fd >= next_frame_to_render[w][1].fd
         /\ last_stored_a'[w] >= last_stored_a[w]
         /\ Len(ui_taken'[w]) > Len(ui_taken[w]) =>
               \A i \in 1..Len(ui_taken[w]) :
                  ui_taken[w][i].fd < ui_taken'[w][Len(ui_taken'[w])].fd
      ]_vars

\* C19 witness: the UI has taken two descriptors of a window, the one of the
\* earlier export first.
C19_Witness ==
    \E w \in Windows :
        /\ Len(ui_taken[w]) = 2
        /\ ui_taken[w][1].fd < ui_taken[w][2].fd
        /\ last_stored_b[w] = ui_taken[w][2].fd

\* the pixel size of a reported triple: (max(w,1)*s, max(h,1)*s)
SizeOf(t) == <<(IF t[1] > 1 THEN t[1] ELSE 1) * t[3], (IF t[2] > 1 THEN t[2] ELSE 1) * t[3]>>

\* C20: the size of every export is the size of a triple (width, height, scale)
\* that the UI reported together for the window.
C20_NoTornSize ==
    \A i \in 1..Len(exports) :
        exports[i].size \in {SizeOf(t) : t \in ui_report[exports[i].win].reported}

\* C21: every RenderWindow the extraction creates carries a descriptor, after the
\* send phase of a pass no RenderWindow carries one, and the put-back of the pass
\* changes neither slot of any window.
C21_SendAlwaysDrains ==
    /\ [](phase = "last" => \A rw \in render_windows : rw.next_frame_to_send = None)
    /\ [][extract_windows =>
            \A rw \in render_windows' \ render_windows : rw.next_frame_to_send # None]_vars
    /\ [][send_frame_to_windows =>
            \A rw \in render_windows' : rw.next_frame_to_send = None]_vars
    /\ [][put_back_next_frame_if_not_sent =>
            /\ next_frame_to_render' = next_frame_to_render
            /\ shared_next_frame' = shared_next_frame
            /\ last_stored_a' = last_stored_a]_vars

\* C21 witness: a pass that extracted and sent a descriptor has ended: its
\* RenderWindow carries nothing, slot A was left empty and slot B holds the
\* descriptor.
C21_Witness ==
    \E w \in Windows :
        /\ phase = "extract"
        /\ rendered
        /\ \E rw \in render_windows : rw.win = w
        /\ \A rw \in render_windows : rw.next_frame_to_send = None
        /\ next_frame_to_render[w] = None
        /\ shared_next_frame[w] # None
        /\ shared_next_frame[w][1].fd = extracted[w]

\* the order of the native steps of one allocation
StepOrder ==
    <<"create_image", "get_image_memory_requirements2", "allocate_memory",
      "bind_image_memory2", "get_memory_fd", "texture_from_raw",
      "create_texture_from_hal", "create_view">>

\* every native call of the run succeeded and the run reached the view
AllStepsSucceeded(calls) ==
    /\ Len(calls) = Len(StepOrder)
    /\ \A i \in 1..Len(calls) : calls[i].ok

\* the call named `name` of the run, as a set: empty if the run did not reach it
StepsNamed(calls, name) == {i \in 1..Len(calls) : calls[i].call = name}

\* C22: the native calls of every allocation are a prefix of the fixed order
\* create image (external-memory flag set) -> query that image -> allocate dedicated
\* exportable memory of the queried size -> bind -> get fd -> wrap and create view,
\* only the last call of a run can have failed, the fd is requested only after a
\* successful bind of the same memory, and a step that registers a texture view or
\* stores a descriptor has a run in which every call succeeded and registers the
\* requested size; a run that failed registers and stores nothing.
C22_ExporterStepOrder ==
    /\ [](/\ Len(native_calls) <= Len(StepOrder)
          /\ \A i \in 1..Len(native_calls) :
               /\ native_calls[i].call = StepOrder[i]
               /\ i < Len(native_calls) => native_calls[i].ok
          /\ \A i \in StepsNamed(native_calls, "create_image") :
               native_calls[i].external_memory
          /\ \A q \in StepsNamed(native_calls, "get_image_memory_requirements2") :
               /\ q > 1
               /\ native_calls[q].image = native_calls[1].image
          /\ \A a \in StepsNamed(native_calls, "allocate_memory") :
               /\ a > 2
               /\ native_calls[a].image = native_calls[1].image
               /\ native_calls[a].external_memory
               /\ native_calls[a].allocation_size = native_calls[a - 1].allocation_size
          /\ \A b \in StepsNamed(native_calls, "bind_image_memory2") :
               /\ b > 3
               /\ native_calls[b].image = native_calls[1].image
               /\ native_calls[b].memory = native_calls[b - 1].memory
          /\ \A g \in StepsNamed(native_calls, "get_memory_fd") :
               \E b \in StepsNamed(native_calls, "bind_image_memory2") :
                   /\ b < g
                   /\ native_calls[b].ok
                   /\ native_calls[b].memory = native_calls[g].memory
          /\ \A t \in StepsNamed(native_calls, "texture_from_raw") :
               /\ native_calls[t].image = native_calls[1].image
               /\ native_calls[t].extent = native_calls[1].extent)
    /\ [][(\/ manual_texture_views' # manual_texture_views
           \/ exports' # exports
           \/ last_stored_a' # last_stored_a) =>
              /\ AllStepsSucceeded(native_calls')
              /\ Len(exports') > Len(exports)
              /\ LET e == exports'[Len(exports')]
                     view == manual_texture_views'[render_target_handle[e.win]]
                     slot == next_frame_to_render'[e.win]
                 IN  /\ native_calls'[1].extent = e.size
                     /\ view # None
                     /\ view[1].size = e.size
                     /\ slot # None
                     /\ slot[1].size = e.size
                     /\ slot[1].fd = native_calls'[5].fd
                     /\ slot[1].texture_view = view[1].texture_view]_vars
    /\ [][(native_calls' # native_calls /\ ~AllStepsSucceeded(native_calls')) =>
              /\ manual_texture_views' = manual_texture_views
              /\ next_frame_to_render' = next_frame_to_render
              /\ exports' = exports]_vars

\* the second allocation of the primary window has run every step: its view is
\* registered with the requested size and its descriptor carries the fd the fifth
\* step returned
C22_Witness ==
    /\ Len(exports) = 2
    /\ exports[2].win = PrimaryWindow
    /\ AllStepsSucceeded(native_calls)
    /\ native_calls[1].extent = exports[2].size
    /\ manual_texture_views[render_target_handle[PrimaryWindow]] # None
    /\ manual_texture_views[render_target_handle[PrimaryWindow]][1].size = exports[2].size
    /\ next_frame_to_render[PrimaryWindow] # None
    /\ next_frame_to_render[PrimaryWindow][1].fd = native_calls[5].fd

\* the step of a pass in which the PostUpdate schedule runs
PostUpdateRuns == schedule = "PostUpdate" /\ schedule' = "PreUpdate"

\* C23: in the PostUpdate of a pass an AppExit event is sent exactly when, under
\* OnAllClosed, no window entity exists, and, under OnPrimaryClosed, the primary
\* window entity does not exist; under DontExit none is ever sent; the poll of a
\* pass despawns every window the UI has marked closed, and the windows it despawned
\* are gone when PostUpdate of that pass looks.
C23_ExitOnClose ==
    /\ [][PostUpdateRuns =>
            /\ exit_condition = "OnAllClosed" =>
                 (app_exit' # <<>> <=> \A w \in Windows : ent[w] # "open")
            /\ exit_condition = "OnPrimaryClosed" =>
                 (app_exit' # <<>> <=> ent[PrimaryWindow] # "open")
            /\ exit_condition = "DontExit" => app_exit' = <<>>
            /\ Len(app_exit') <= 1]_vars
    /\ [][~PostUpdateRuns => (app_exit' = app_exit \/ app_exit' = <<>>)]_vars
    /\ [](exit_condition = "DontExit" => app_exit = <<>>)
    /\ [][(schedule = "PreUpdate" /\ schedule' = "PostUpdate") =>
            \A w \in Windows : (ent[w] = "open" /\ closed[w]) => w \in observed_close']_vars
    /\ [](schedule = "PostUpdate" => \A w \in observed_close : ent[w] # "open")
    /\ [][(/\ PostUpdateRuns
           /\ observed_close # {}
           /\ \/ exit_condition = "OnAllClosed" /\ \A w \in Windows : ent[w] # "open"
              \/ exit_condition = "OnPrimaryClosed" /\ PrimaryWindow \in observed_close) =>
              app_exit' = <<"Success">>]_vars

\* under OnPrimaryClosed the poll of the pass despawned the primary window while a
\* second window is still open, and the PostUpdate of that pass has sent AppExit
C23_Witness ==
    /\ exit_condition = "OnPrimaryClosed"
    /\ schedule = "PreUpdate"
    /\ observed_close = {PrimaryWindow}
    /\ ent[PrimaryWindow] = "despawned"
    /\ \E w \in Windows : ent[w] = "open"
    /\ app_exit = <<"Success">>

====
